---- MODULE Spec2Model ----
(***************************************************************************)
(* Disaster-event layer of a settlement simulation (game/events.py).       *)
(*                                                                         *)
(* Python floats are modelled as exact rationals over fixed denominators:  *)
(*   disaster_intensity, moisture          hundredths                      *)
(*   weather pattern weights, event weights, plate_activity   tenths       *)
(*   perlin noise n, jitter rnd            tenths                          *)
(*   severity                              numerator over SevDen           *)
(*   tile moisture                         numerator over 10 * SevDen      *)
(* int() is truncation toward zero, round() is round-half-to-even.  The     *)
(* value sets below are ones on which the float results of the source and  *)
(* the exact results agree.                                                *)
(***************************************************************************)
EXTENDS Integers, Sequences, FiniteSets, TLC

\* Last turn the driver is followed to (bounds the state space).
MaxTurn == 10

----------------------------------------------------------------------------
\* Arithmetic of the Python built-ins on a rational p / q, q > 0.

Max(a, b) == IF a >= b THEN a ELSE b

Min(a, b) == IF a <= b THEN a ELSE b

\* int(p / q): truncation toward zero.
Trunc(p, q) == IF p >= 0 THEN p \div q ELSE -((-p) \div q)

\* round(p / q): nearest integer, ties to the even one.
Round(p, q) ==
    LET f  == p \div q
        r2 == 2 * (p - f * q)
    IN  IF r2 < q THEN f
        ELSE IF r2 > q THEN f + 1
        ELSE IF f % 2 = 0 THEN f ELSE f + 1

\* math.ceil(p / q)
Ceil(p, q) == -((-p) \div q)

----------------------------------------------------------------------------
\* Event variants, in the order of ALL_EVENTS.

ALL_EVENTS == <<"flood", "drought", "raid", "earthquake", "hurricane">>

EventNames == {ALL_EVENTS[i] : i \in 1..Len(ALL_EVENTS)}

\* The mapping EventSystem.__init__ installs when no event_weights is given.
DefaultEventWeights == [e \in EventNames |-> 10]

\* WorldSettings.weather_patterns default.
DefaultWeatherPatterns == [k \in {"rain", "dry", "snow"} |->
                             IF k = "rain" THEN 3 ELSE IF k = "dry" THEN 5 ELSE 2]

\* dict.get(key, default)
Get(d, key, default) == IF key \in DOMAIN d THEN d[key] ELSE default

----------------------------------------------------------------------------
\* Configurations the driver may construct the system with.

DisasterIntensities == {0, 100, 102, 150, 160}

Moistures == {0, 50}

WeatherPatternSets == {DefaultWeatherPatterns, [k \in {"snow"} |-> 2]}

EventWeightSets == {DefaultEventWeights, [e \in EventNames |-> 0]}

SettingsSet ==
    [disaster_intensity : DisasterIntensities,
     moisture           : Moistures,
     plate_activity     : {5},
     weather_patterns   : WeatherPatternSets,
     world_changes      : BOOLEAN]

\* Outputs of the external oracles at the settlement's coordinate and seed:
\* perlin_noise(x, y, seed, 0.1) in [-1, 1], Random(hash).random() - 0.5 in
\* [-0.5, 0.5), and the 0/1 draw of Flood's location-seeded generator.
OracleSet ==
    {[noise |-> -5, jitter |-> 4,  bit |-> 1],
     [noise |-> 0,  jitter |-> -5, bit |-> 0],
     [noise |-> 0,  jitter |-> 4,  bit |-> 1],
     [noise |-> 5,  jitter |-> -5, bit |-> 1]}

\* The world grid: world.get(x, y) has a tile exactly on these coordinates.
Origin == <<0, 0>>

Coords == {Origin, <<1, 0>>}

\* state.location: <<>> is None.
Locations == {<<>>, Origin, <<7, 7>>}

\* SettlementState(resources, population, buildings, defenses, location)
SettlementState(r, p, b, d, loc) ==
    [resources |-> r, population |-> p, buildings |-> b, defenses |-> d,
     location |-> loc]

SettlementStates ==
    {SettlementState(100, 100, 10, 0, loc) : loc \in Locations}
    \cup {SettlementState(100, 100, 10, 10, loc) : loc \in Locations}
    \cup {SettlementState(2, 3, 1, 0, loc) : loc \in Locations}

----------------------------------------------------------------------------
\* World tiles around the settlement.  A tile is a record of terrain,
\* flooded, ruined, river, lake and moisture; its coord is its key in tiles.

Tile(terrain, river, lake) ==
    [terrain |-> terrain, flooded |-> FALSE, ruined |-> FALSE,
     river |-> river, lake |-> lake, moisture |-> 5 * 50000]

Seg(a, b) == [start |-> a, end |-> b]

NeighbourTile == Tile("water", FALSE, TRUE)

\* Segments that do not touch the settlement's tile.
FarSegment == Seg(<<1, 0>>, <<1, 1>>)

\* A world whose tile at Origin is t; a river tile lies on two segments,
\* between and before segments that do not touch it.
WorldWith(t) ==
    [tiles  |-> [c \in Coords |-> IF c = Origin THEN t ELSE NeighbourTile],
     rivers |-> IF t.river
                THEN <<Seg(<<0, 1>>, Origin), FarSegment, Seg(Origin, <<1, 0>>),
                       Seg(<<1, 1>>, <<2, 1>>)>>
                ELSE <<FarSegment>>,
     lakes  |-> IF t.lake THEN <<<<1, 0>>, Origin>> ELSE <<<<1, 0>>>>]

Worlds ==
    {WorldWith(Tile("plains", FALSE, FALSE)),
     WorldWith(Tile("hills", FALSE, FALSE)),
     WorldWith(Tile("plains", TRUE, FALSE)),
     WorldWith(Tile("water", FALSE, TRUE)),
     WorldWith(Tile("water", TRUE, TRUE))}

\* world.get(x, y): the tile, or nothing off the grid.
HasTile(w, loc) == loc \in DOMAIN w.tiles

----------------------------------------------------------------------------
\* Event.severity, as a numerator over SevDen.

SevDen == 10 * 50 * 100

severity(st, set, orc) ==
    LET base == IF st.location = <<>>
                THEN 10 * 50
                ELSE (3 + 3 * orc.noise) * (50 + orc.jitter)
    IN  base * (100 + set.disaster_intensity)

\* The threshold test against 0.3.
Severe_low(sev) == 10 * sev > 3 * SevDen

\* sev > 1.3
Severe(sev) == 10 * sev > 13 * SevDen

\* The guard without the world_changes switch.
Mutates_always(st, w, set) ==
    /\ st.location # <<>>
    /\ HasTile(w, st.location)

\* The condition guarding every world mutation.
Mutates(st, w, set) ==
    /\ st.location # <<>>
    /\ set.world_changes
    /\ HasTile(w, st.location)

\* Writes tile t at the settlement's location.
SetTile(w, loc, t) == [w EXCEPT !.tiles[loc] = t]

\* The filter that tests only the start of a segment.
RECURSIVE WithoutSegmentsAt_start_only(_, _)
WithoutSegmentsAt_start_only(rivers, coord) ==
    IF rivers = <<>> THEN <<>>
    ELSE LET seg  == Head(rivers)
             rest == WithoutSegmentsAt_start_only(Tail(rivers), coord)
         IN  IF seg.start # coord THEN <<seg>> \o rest ELSE rest

\* [seg for seg in world.rivers if seg.start != coord and seg.end != coord]
RECURSIVE WithoutSegmentsAt(_, _)
WithoutSegmentsAt(rivers, coord) ==
    IF rivers = <<>> THEN <<>>
    ELSE LET seg  == Head(rivers)
             rest == WithoutSegmentsAt(Tail(rivers), coord)
         IN  IF seg.start # coord /\ seg.end # coord
             THEN <<seg>> \o rest
             ELSE rest

\* [c for c in world.lakes if c != coord]
RECURSIVE WithoutCoord(_, _)
WithoutCoord(lakes, coord) ==
    IF lakes = <<>> THEN <<>>
    ELSE LET rest == WithoutCoord(Tail(lakes), coord)
         IN  IF Head(lakes) # coord THEN <<Head(lakes)>> \o rest ELSE rest

InSeq(x, s) == \E i \in 1..Len(s) : s[i] = x

\* if hex_.coord not in world.lakes: world.lakes.append(hex_.coord)
AppendLake(lakes, coord) ==
    IF InSeq(coord, lakes) THEN lakes ELSE Append(lakes, coord)

----------------------------------------------------------------------------
\* The five apply rules.  Each maps the settlement st and the world w to
\* the pair after the call; set is world.settings, orc the oracle outputs.

Flood_apply(st, w, set, orc) ==
    LET sev      == severity(st, set, orc)
        loss     == Max(0, Round(3 * st.buildings * sev, 10 * SevDen)
                           - st.defenses + orc.bit)
        res_loss == Min(st.resources, Round(loss * 2 * sev, SevDen))
        st1      == [st EXCEPT !.buildings = Max(0, st.buildings - loss),
                               !.resources = st.resources - res_loss]
        coord    == st.location
        h0       == w.tiles[coord]
        h1       == [h0 EXCEPT !.flooded = TRUE]
        \* if hex_.river: sever the river and register a lake
        h2       == IF h1.river
                    THEN [h1 EXCEPT !.river = FALSE, !.lake = TRUE,
                                    !.terrain = "water"]
                    ELSE h1
        w2       == IF h1.river
                    THEN [w EXCEPT !.rivers = WithoutSegmentsAt(w.rivers, coord),
                                   !.lakes = AppendLake(w.lakes, coord)]
                    ELSE w
        \* if hex_.terrain == "hills": ... else: ...
        h3       == IF h2.terrain = "hills"
                    THEN [h2 EXCEPT !.terrain = "mountains"]
                    ELSE [h2 EXCEPT !.terrain = "water", !.lake = TRUE]
    IN  [state |-> st1,
         world |-> IF ~Mutates(st, w, set) THEN w
                   ELSE IF Severe(sev) THEN SetTile(w2, coord, h3)
                   ELSE SetTile(w, coord, h1)]

Drought_apply(st, w, set, orc) ==
    LET sev      == severity(st, set, orc)
        res_loss == Trunc(2 * st.resources * sev, 10 * SevDen)
        pop_loss == Trunc(st.population * sev, 10 * SevDen)
        st1      == [st EXCEPT !.resources = Max(0, st.resources - res_loss),
                               !.population = Max(0, st.population - pop_loss)]
        coord    == st.location
        h0       == w.tiles[coord]
        h1       == [h0 EXCEPT !.moisture = Max(0, h0.moisture - sev)]
        h2       == IF h1.lake
                    THEN [h1 EXCEPT !.lake = FALSE, !.terrain = "plains"]
                    ELSE [h1 EXCEPT !.terrain = "desert"]
        w2       == IF h1.lake
                    THEN [w EXCEPT !.lakes = WithoutCoord(w.lakes, coord)]
                    ELSE w
    IN  [state |-> st1,
         world |-> IF ~Mutates(st, w, set) THEN w
                   ELSE IF Severe(sev) THEN SetTile(w2, coord, h2)
                   ELSE SetTile(w, coord, h1)]

\* Raid whose effective strength lacks the floor of one.
Raid_apply_no_floor(st, w, set, orc) ==
    LET sev       == severity(st, set, orc)
        effective == Trunc((5 - st.defenses) * sev, SevDen)
        res_loss  == Min(st.resources, effective * 3)
        bld_loss  == Max(0, effective - 1)
        st1       == [st EXCEPT !.resources = st.resources - res_loss,
                                !.buildings = Max(0, st.buildings - bld_loss)]
        coord     == st.location
        h0        == w.tiles[coord]
        h1        == [h0 EXCEPT !.ruined = TRUE]
        h2        == IF h1.terrain = "hills"
                     THEN [h1 EXCEPT !.terrain = "mountains"]
                     ELSE h1
    IN  IF ~Mutates(st, w, set) THEN [state |-> st1, world |-> w]
        ELSE IF Severe(sev)
             THEN [state |-> [st1 EXCEPT !.buildings = 0],
                   world |-> SetTile(w, coord, h2)]
        ELSE [state |-> st1, world |-> SetTile(w, coord, h1)]

\* Raid that looks the tile up first and returns when there is none.
Raid_apply_lookup_first(st, w, set, orc) ==
    LET sev       == severity(st, set, orc)
        effective == Max(1, Trunc((5 - st.defenses) * sev, SevDen))
        res_loss  == Min(st.resources, effective * 3)
        bld_loss  == Max(0, effective - 1)
        st1       == [st EXCEPT !.resources = st.resources - res_loss,
                                !.buildings = Max(0, st.buildings - bld_loss)]
        coord     == st.location
        h0        == w.tiles[coord]
        h1        == [h0 EXCEPT !.ruined = TRUE]
        h2        == IF h1.terrain = "hills"
                     THEN [h1 EXCEPT !.terrain = "mountains"]
                     ELSE h1
    IN  IF st.location # <<>> /\ ~HasTile(w, st.location)
        THEN [state |-> st, world |-> w]
        ELSE IF ~Mutates(st, w, set) THEN [state |-> st1, world |-> w]
        ELSE IF Severe(sev)
             THEN [state |-> [st1 EXCEPT !.buildings = 0],
                   world |-> SetTile(w, coord, h2)]
        ELSE [state |-> st1, world |-> SetTile(w, coord, h1)]

Raid_apply(st, w, set, orc) ==
    LET sev       == severity(st, set, orc)
        effective == Max(1, Trunc((5 - st.defenses) * sev, SevDen))
        res_loss  == Min(st.resources, effective * 3)
        bld_loss  == Max(0, effective - 1)
        st1       == [st EXCEPT !.resources = st.resources - res_loss,
                                !.buildings = Max(0, st.buildings - bld_loss)]
        coord     == st.location
        h0        == w.tiles[coord]
        h1        == [h0 EXCEPT !.ruined = TRUE]
        h2        == IF h1.terrain = "hills"
                     THEN [h1 EXCEPT !.terrain = "mountains"]
                     ELSE h1
    IN  IF ~Mutates(st, w, set) THEN [state |-> st1, world |-> w]
        ELSE IF Severe(sev)
             THEN [state |-> [st1 EXCEPT !.buildings = 0],
                   world |-> SetTile(w, coord, h2)]
        ELSE [state |-> st1, world |-> SetTile(w, coord, h1)]

\* Earthquake without the clamp of buildings and population at zero.
Earthquake_apply_unclamped(st, w, set, orc) ==
    LET sev      == severity(st, set, orc)
        bld_loss == Trunc(4 * st.buildings * sev, 10 * SevDen)
        pop_loss == Trunc(2 * st.population * sev, 10 * SevDen)
        st1      == [st EXCEPT !.buildings = st.buildings - bld_loss,
                               !.population = st.population - pop_loss]
        coord    == st.location
        h0       == w.tiles[coord]
    IN  [state |-> st1,
         world |-> IF Mutates(st, w, set) /\ Severe(sev)
                   THEN SetTile(w, coord, [h0 EXCEPT !.terrain = "mountains"])
                   ELSE w]

Earthquake_apply(st, w, set, orc) ==
    LET sev      == severity(st, set, orc)
        bld_loss == Trunc(4 * st.buildings * sev, 10 * SevDen)
        pop_loss == Trunc(2 * st.population * sev, 10 * SevDen)
        st1      == [st EXCEPT !.buildings = Max(0, st.buildings - bld_loss),
                               !.population = Max(0, st.population - pop_loss)]
        coord    == st.location
        h0       == w.tiles[coord]
    IN  [state |-> st1,
         world |-> IF Mutates(st, w, set) /\ Severe(sev)
                   THEN SetTile(w, coord, [h0 EXCEPT !.terrain = "mountains"])
                   ELSE w]

Hurricane_apply(st, w, set, orc) ==
    LET sev      == severity(st, set, orc)
        loss     == Max(0, Trunc(3 * st.buildings * sev, 10 * SevDen)
                           - st.defenses)
        res_loss == Min(st.resources, Trunc(3 * st.resources * sev, 10 * SevDen))
        st1      == [st EXCEPT !.buildings = Max(0, st.buildings - loss),
                               !.resources = st.resources - res_loss]
        coord    == st.location
        h0       == w.tiles[coord]
        h1       == [h0 EXCEPT !.flooded = TRUE]
        h2       == [h1 EXCEPT !.river = FALSE, !.terrain = "water",
                               !.lake = TRUE]
        w2       == IF h1.river
                    THEN [w EXCEPT !.rivers = WithoutSegmentsAt(w.rivers, coord),
                                   !.lakes = AppendLake(w.lakes, coord)]
                    ELSE w
    IN  [state |-> st1,
         world |-> IF ~Mutates(st, w, set) THEN w
                   ELSE IF Severe(sev) THEN SetTile(w2, coord, h2)
                   ELSE SetTile(w, coord, h1)]

\* event.apply(state, world) for the chosen variant.
apply(e, st, w, set, orc) ==
    CASE e = "flood"      -> Flood_apply(st, w, set, orc)
      [] e = "drought"    -> Drought_apply(st, w, set, orc)
      [] e = "raid"       -> Raid_apply(st, w, set, orc)
      [] e = "earthquake" -> Earthquake_apply(st, w, set, orc)
      [] e = "hurricane"  -> Hurricane_apply(st, w, set, orc)

----------------------------------------------------------------------------
\* EventSystem

VARIABLES
    pc,               \* "new" before __init__, "ready" after, "failed" if it raised
    settings,         \* WorldSettings shared by the system and the world
    event_weights,    \* EventSystem.event_weights
    oracle,           \* noise / jitter / flood bit at the settlement's coordinate
    state,            \* the SettlementState handed to advance_turn
    world,            \* tiles, rivers and lakes of the World
    turn_counter,     \* EventSystem.turn_counter
    next_event_turn,  \* EventSystem.next_event_turn
    rng_draws,        \* number of draws taken from EventSystem.rng
    ret               \* outcome of the last call: "None", an event, "ValueError"

vars == <<pc, settings, event_weights, oracle, state, world, turn_counter,
          next_event_turn, rng_draws, ret>>

min_base(set) == 10 + Trunc((100 - set.disaster_intensity) * 20, 100)

max_base(set) == 20 + Trunc((100 - set.disaster_intensity) * 40, 100)

\* The delay with weather_factor = 1 + moisture.
delay_wet(base, set) == Max(2, Trunc(base * (100 + set.moisture), 100))

\* delay = max(2, int(base * weather_factor)), weather_factor = 1 + moisture * 0.5
delay(base, set) == Max(2, Trunc(base * (200 + set.moisture), 200))

\* The schedule that returns the delay without adding turn_counter.
schedule_next_relative(set, tc) ==
    {delay(base, set) : base \in min_base(set)..max_base(set)}

\* _schedule_next: the turns rng.randint(min_base, max_base) can lead to;
\* empty when randint raises on an empty range.
schedule_next(set, tc) ==
    {tc + delay(base, set) : base \in min_base(set)..max_base(set)}

\* The weights list of _choose_event, as a function of the event name.
weights(set, ew) ==
    LET rain == Get(set.weather_patterns, "rain", 1)
        dry  == Get(set.weather_patterns, "dry", 1)
    IN  [e \in EventNames |->
           CASE e = "flood"      -> Get(ew, "flood", 10) * rain * set.moisture
             [] e = "drought"    -> Get(ew, "drought", 10) * dry
                                      * (100 - set.moisture)
             [] e = "raid"       -> Get(ew, "raid", 10) * 10 * 100
             [] e = "earthquake" -> Get(ew, "earthquake", 10)
                                      * set.plate_activity * 100
             [] e = "hurricane"  -> Get(ew, "hurricane", 10) * rain
                                      * set.moisture]

\* _choose_event: the variants rng.choices can return (those of positive
\* weight); empty when it raises ValueError because the total of the weights
\* is not greater than zero.
choose_event(set, ew) == {e \in EventNames : weights(set, ew)[e] > 0}

Init ==
    /\ pc = "new"
    /\ settings \in SettingsSet
    /\ event_weights \in EventWeightSets
    /\ oracle \in OracleSet
    /\ state \in SettlementStates
    /\ world \in Worlds
    /\ turn_counter = 0
    /\ next_event_turn = 0
    /\ rng_draws = 0
    /\ ret = "None"

\* EventSystem.__init__
Construct ==
    /\ pc = "new"
    /\ IF schedule_next(settings, 0) = {}
       THEN /\ pc' = "failed"
            /\ ret' = "ValueError"
            /\ UNCHANGED next_event_turn
       ELSE /\ pc' = "ready"
            /\ next_event_turn' \in schedule_next(settings, 0)
            /\ UNCHANGED ret
    /\ rng_draws' = rng_draws + 1
    /\ UNCHANGED <<settings, event_weights, oracle, state, world, turn_counter>>

\* advance_turn that fires one turn before the scheduled one.
advance_turn_early ==
    /\ pc = "ready"
    /\ turn_counter < MaxTurn
    /\ turn_counter' = turn_counter + 1
    /\ IF turn_counter + 2 >= next_event_turn
       THEN IF choose_event(settings, event_weights) = {}
            THEN /\ ret' = "ValueError"
                 /\ UNCHANGED <<state, world, next_event_turn, rng_draws>>
            ELSE \E e \in choose_event(settings, event_weights) :
                   LET r == apply(e, state, world, settings, oracle)
                   IN  /\ state' = r.state
                       /\ world' = r.world
                       /\ rng_draws' = rng_draws + 2
                       /\ IF schedule_next(settings, turn_counter + 1) = {}
                          THEN /\ ret' = "ValueError"
                               /\ UNCHANGED next_event_turn
                          ELSE /\ next_event_turn'
                                    \in schedule_next(settings, turn_counter + 1)
                               /\ ret' = e
       ELSE /\ ret' = "None"
            /\ UNCHANGED <<state, world, next_event_turn, rng_draws>>
    /\ UNCHANGED <<pc, settings, event_weights, oracle>>

\* EventSystem.advance_turn(state, world)
advance_turn ==
    /\ pc = "ready"
    /\ turn_counter < MaxTurn
    /\ turn_counter' = turn_counter + 1
    /\ IF turn_counter + 1 >= next_event_turn
       THEN IF choose_event(settings, event_weights) = {}
            THEN /\ ret' = "ValueError"
                 /\ UNCHANGED <<state, world, next_event_turn, rng_draws>>
            ELSE \E e \in choose_event(settings, event_weights) :
                   LET r == apply(e, state, world, settings, oracle)
                   IN  /\ state' = r.state
                       /\ world' = r.world
                       /\ rng_draws' = rng_draws + 2
                       /\ IF schedule_next(settings, turn_counter + 1) = {}
                          THEN /\ ret' = "ValueError"
                               /\ UNCHANGED next_event_turn
                          ELSE /\ next_event_turn'
                                    \in schedule_next(settings, turn_counter + 1)
                               /\ ret' = e
       ELSE /\ ret' = "None"
            /\ UNCHANGED <<state, world, next_event_turn, rng_draws>>
    /\ UNCHANGED <<pc, settings, event_weights, oracle>>

Next == Construct \/ advance_turn

Spec == Init /\ [][Next]_vars

----------------------------------------------------------------------------
\* Properties.

\* The severity of the settlement's events, 1.0 * (1 + disaster_intensity)
\* without a location.
SevNow == severity(state, settings, oracle)

\* A step taken from a constructed system is one advance_turn call.
Called == pc = "ready"

\* The last call fired an event and rescheduled.
Fired == pc = "ready" /\ ret \in EventNames

\* next_event_turn was computed in this state: by __init__ or by a firing.
JustScheduled == pc = "ready" /\ (turn_counter = 0 \/ ret \in EventNames)

\* C1: starting from non-negative counters, resources, population,
\* buildings and defenses are non-negative after every advance_turn call,
\* whatever event fired and whatever its severity.
C1_NonNegativity ==
    /\ state.resources >= 0
    /\ state.population >= 0
    /\ state.buildings >= 0
    /\ state.defenses >= 0

\* The first event was an earthquake whose building loss exceeded the ten
\* buildings of the settlement, which is left with none.
C1_Witness ==
    /\ Fired
    /\ ret = "earthquake"
    /\ 4 * SevNow > 10 * SevDen
    /\ turn_counter = 2
    /\ state.buildings = 0
    /\ state.resources = 100

\* C2: every advance_turn call increments turn_counter and fires (returns
\* an event, having applied one variant and rescheduled once) if and only
\* if the incremented counter has reached next_event_turn; a call that does
\* not fire returns nothing.
C2_FiresIffDue ==
    [][Called =>
          /\ turn_counter' = turn_counter + 1
          /\ (turn_counter' >= next_event_turn) <=> (ret' \in EventNames)
          /\ (turn_counter' < next_event_turn) => (ret' = "None")
          /\ (ret' \in EventNames) =>
                /\ apply(ret', state, world, settings, oracle)
                     = [state |-> state', world |-> world']
                /\ next_event_turn' \in schedule_next(settings, turn_counter')]_vars

\* max_base as the specification words it, with round().
SpecMaxBase == 20 + Round((100 - settings.disaster_intensity) * 40, 100)

\* C3 as stated: whenever next_event_turn has just been computed, the delay
\* next_event_turn - turn_counter lies in
\* [2, ceil(max_base * (1 + moisture * 0.5))] with
\* max_base = 20 + round((1 - disaster_intensity) * 40).
C3_SchedulingBounds ==
    JustScheduled =>
        /\ next_event_turn - turn_counter >= 2
        /\ next_event_turn - turn_counter
             <= Ceil(SpecMaxBase * (200 + settings.moisture), 200)

\* C3 amended: the delay lies in [2, max(2, ceil(max_base * (1 + moisture *
\* 0.5)))] with max_base = 20 + int((1 - disaster_intensity) * 40), int
\* truncating toward zero.
C3_SchedulingBoundsAmended ==
    JustScheduled =>
        /\ next_event_turn - turn_counter >= 2
        /\ next_event_turn - turn_counter
             <= Max(2, Ceil((20 + Trunc((100 - settings.disaster_intensity) * 40,
                                        100))
                            * (200 + settings.moisture), 200))

\* A firing rescheduled with the longest delay the bound allows.
C3_Witness ==
    /\ Fired
    /\ next_event_turn - turn_counter > 2
    /\ next_event_turn - turn_counter
         = Ceil(SpecMaxBase * (200 + settings.moisture), 200)

\* C4 as stated: across every advance_turn call both turn_counter and
\* next_event_turn become strictly greater.
C4_StrictlyMonotonic ==
    [][Called =>
          /\ turn_counter' > turn_counter
          /\ next_event_turn' > next_event_turn]_vars

\* C4 amended: across every advance_turn call turn_counter becomes strictly
\* greater and next_event_turn never becomes smaller; next_event_turn
\* becomes strictly greater on the calls that return an event and is
\* unchanged on all other calls.
C4_MonotonicAmended ==
    [][Called =>
          /\ turn_counter' > turn_counter
          /\ next_event_turn' >= next_event_turn
          /\ (ret' \in EventNames) => (next_event_turn' > next_event_turn)
          /\ (ret' \notin EventNames) => (next_event_turn' = next_event_turn)]_vars

\* A second event has fired, two turns after the first.
C4_Witness == Fired /\ turn_counter = 4 /\ next_event_turn = 6

\* C5: with all five computed weights zero a call that reaches the scheduled
\* turn completes without raising, and a weather pattern missing from
\* weather_patterns counts as 0.1.
C5_NoCrashOnMalformedWeights ==
    /\ (pc = "ready" /\ \A e \in EventNames : weights(settings, event_weights)[e] = 0)
         => ret # "ValueError"
    /\ ("rain" \notin DOMAIN settings.weather_patterns)
         => weights(settings, event_weights)["flood"]
              = event_weights["flood"] * 1 * settings.moisture
    /\ ("dry" \notin DOMAIN settings.weather_patterns)
         => weights(settings, event_weights)["drought"]
              = event_weights["drought"] * 1 * (100 - settings.moisture)

\* The direct damage rules of the five variants as the specification
\* tabulates them, for a severity sev / SevDen and Flood's noise term bit.
TableLosses(e, st, sev, bit) ==
    CASE e = "flood" ->
           LET loss == Max(0, Round(3 * st.buildings * sev, 10 * SevDen)
                              - st.defenses + bit)
           IN  [st EXCEPT
                  !.buildings = Max(0, @ - loss),
                  !.resources = @ - Min(@, Round(loss * 2 * sev, SevDen))]
      [] e = "drought" ->
           [st EXCEPT
              !.resources  = Max(0, @ - Trunc(2 * @ * sev, 10 * SevDen)),
              !.population = Max(0, @ - Trunc(@ * sev, 10 * SevDen))]
      [] e = "raid" ->
           LET effective == Max(1, Trunc((5 - st.defenses) * sev, SevDen))
           IN  [st EXCEPT
                  !.buildings = Max(0, @ - Max(0, effective - 1)),
                  !.resources = @ - Min(@, effective * 3)]
      [] e = "earthquake" ->
           [st EXCEPT
              !.buildings  = Max(0, @ - Trunc(4 * @ * sev, 10 * SevDen)),
              !.population = Max(0, @ - Trunc(2 * @ * sev, 10 * SevDen))]
      [] e = "hurricane" ->
           [st EXCEPT
              !.buildings = Max(0, @ - Max(0, Trunc(3 * @ * sev, 10 * SevDen)
                                              - st.defenses)),
              !.resources = @ - Min(@, Trunc(3 * @ * sev, 10 * SevDen))]

\* C6: when the settlement has no location or world_changes is off, a call
\* leaves every tile, world.rivers and world.lakes unchanged, and a fired
\* event still applies its tabulated damage to the settlement.
C6_WorldMutationGated ==
    [][(Called /\ (state.location = <<>> \/ ~settings.world_changes)) =>
          /\ world' = world
          /\ (ret' \in EventNames) =>
                state' = TableLosses(ret', state, SevNow, oracle.bit)]_vars

\* An event has damaged a settlement on a tile while world_changes is off,
\* and the tile carries no mark.
C6_Witness ==
    /\ Fired
    /\ ~settings.world_changes
    /\ state.location = Origin
    /\ state.buildings < 10
    /\ ~world.tiles[Origin].flooded
    /\ ~world.tiles[Origin].ruined

\* C7: when world.get has no tile at the settlement's location, a call
\* changes no tile, world.rivers or world.lakes, and a fired event (which
\* completes and is returned) still applies its tabulated damage.
C7_MissingTileSkipsMutationOnly ==
    [][(Called /\ state.location # <<>> /\ state.location \notin DOMAIN world.tiles) =>
          /\ world' = world
          /\ (turn_counter + 1 >= next_event_turn
                /\ choose_event(settings, event_weights) # {})
               => (ret' \in EventNames
                   /\ state' = TableLosses(ret', state, SevNow, oracle.bit))]_vars

\* A raid has fired on a settlement whose location is off the grid, with
\* world_changes on, and taken resources.
C7_Witness ==
    /\ Fired
    /\ ret = "raid"
    /\ settings.world_changes
    /\ state.location \notin Coords
    /\ state.location # <<>>
    /\ state.resources \notin {2, 100}

\* The tile fields variant e may mark at any severity.
BaselineMarks(e, old, new) ==
    CASE e \in {"flood", "hurricane"} -> new = [old EXCEPT !.flooded = TRUE]
      [] e = "raid"                   -> new = [old EXCEPT !.ruined = TRUE]
      [] e = "drought" ->
           new = [old EXCEPT !.moisture = Max(0, old.moisture - SevNow)]
      [] e = "earthquake"             -> new = old
      [] OTHER                        -> new = old

\* C8: when severity <= 1.3 a call changes at most the baseline mark of the
\* fired variant on each tile (flooded, ruined, reduced moisture, nothing
\* for an earthquake); terrain, river, lake, world.rivers and world.lakes
\* stay as they were.
C8_ThresholdGating ==
    [][(Called /\ 10 * SevNow <= 13 * SevDen) =>
          /\ world'.rivers = world.rivers
          /\ world'.lakes = world.lakes
          /\ \A c \in Coords :
               \/ world'.tiles[c] = world.tiles[c]
               \/ BaselineMarks(ret', world.tiles[c], world'.tiles[c])]_vars

\* A flood of severity at most 1.3 has marked the tile flooded and left its
\* terrain alone.
C8_Witness ==
    /\ Fired
    /\ ret = "flood"
    /\ 10 * SevNow <= 13 * SevDen
    /\ 10 * SevNow > 3 * SevDen
    /\ world.tiles[Origin].flooded
    /\ world.tiles[Origin].terrain = "hills"

\* C9: no tile is ever a river and desert at once.
C9_NoDesertRiver ==
    \A c \in Coords :
        ~(world.tiles[c].river /\ world.tiles[c].terrain = "desert")

\* C10: a tile's lake flag is set exactly when its coord is in world.lakes,
\* and world.lakes holds no coord twice.
C10_LakeRegistryConsistent ==
    /\ \A c \in Coords : world.tiles[c].lake <=> InSeq(c, world.lakes)
    /\ \A i, j \in 1..Len(world.lakes) :
         world.lakes[i] = world.lakes[j] => i = j

\* C11 (determinism of two identically seeded systems) relates pairs of
\* behaviours; it has no formula over this specification.

\* C12: the severity a fired event computed is strictly positive at every
\* location, for every noise value in [-1, 1] and every disaster_intensity
\* >= 0, and without a location it is 1.0 * (1 + disaster_intensity).
C12_SeverityPositive ==
    Fired =>
        /\ SevNow > 0
        /\ (state.location = <<>>)
             => (100 * SevNow = SevDen * (100 + settings.disaster_intensity))

\* The severe-raid branch: a tile is present, world_changes is on and
\* severity > 1.3.
SevereRaidBranch ==
    /\ state.location \in DOMAIN world.tiles
    /\ settings.world_changes
    /\ 10 * SevNow > 13 * SevDen

\* effective = max(1, floor((5 - defenses) * sev)) of the settlement.
RaidEffective == Max(1, Trunc((5 - state.defenses) * SevNow, SevDen))

\* C13: a fired raid takes min(resources, effective * 3) resources and,
\* outside the severe-raid branch, max(0, effective - 1) buildings; with
\* defenses >= 5 and positive severity that is no building and exactly
\* min(resources, 3) resources.
C13_RaidLosses ==
    [][(Called /\ ret' = "raid") =>
          /\ state'.resources
               = state.resources - Min(state.resources, RaidEffective * 3)
          /\ ~SevereRaidBranch =>
               state'.buildings
                 = Max(0, state.buildings - Max(0, RaidEffective - 1))
          /\ (state.defenses >= 5 /\ SevNow > 0 /\ ~SevereRaidBranch) =>
               /\ state'.buildings = state.buildings
               /\ state'.resources
                    = state.resources - Min(state.resources, 3)]_vars

\* The first event was a raid of positive severity on a settlement with
\* ten defenses: three resources are gone and all ten buildings stand.
C13_Witness ==
    /\ Fired
    /\ ret = "raid"
    /\ turn_counter = 2
    /\ state.defenses = 10
    /\ SevNow > 0
    /\ ~SevereRaidBranch
    /\ state.resources = 97
    /\ state.buildings = 10

\* C14: for every disaster_intensity >= 0 the draw range of _schedule_next
\* is not empty and construction (and every rescheduling) produces a
\* next_event_turn without raising.
C14_ScheduleNeverRaises ==
    (pc # "new") =>
        /\ min_base(settings) <= max_base(settings)
        /\ pc = "ready"
        /\ ret # "ValueError" => next_event_turn > turn_counter

\* The segments of rivers that do not touch coord, in their order.
Untouched(rivers, coord) ==
    LET Away(seg) == seg.start # coord /\ seg.end # coord
    IN  SelectSeq(rivers, Away)

\* The number of times coord occurs in lakes.
Occurrences(lakes, coord) ==
    Cardinality({i \in 1..Len(lakes) : lakes[i] = coord})

\* C15: a Flood or Hurricane of severity > 1.3 on a river tile (with
\* world_changes on) leaves the tile with river off, lake on and terrain
\* "water", removes exactly the segments that start or end at the tile,
\* keeping the others in order, and leaves the tile's coord in world.lakes
\* exactly once.
C15_RiverSevering ==
    [][(/\ Called
        /\ ret' \in {"flood", "hurricane"}
        /\ settings.world_changes
        /\ state.location \in DOMAIN world.tiles
        /\ world.tiles[state.location].river
        /\ 10 * SevNow > 13 * SevDen) =>
          LET c == state.location
              t == world'.tiles[c]
          IN  /\ ~t.river
              /\ t.lake
              /\ t.terrain = "water"
              /\ world'.rivers = Untouched(world.rivers, c)
              /\ \A i \in 1..Len(world'.rivers) :
                   world'.rivers[i].start # c /\ world'.rivers[i].end # c
              /\ Occurrences(world'.lakes, c) = 1]_vars

\* A hurricane has severed the river at the settlement's tile: the two far
\* segments remain, in order, and the tile is a registered lake.
C15_Witness ==
    /\ Fired
    /\ ret = "hurricane"
    /\ world.rivers = <<FarSegment, Seg(<<1, 1>>, <<2, 1>>)>>
    /\ ~world.tiles[Origin].river
    /\ world.tiles[Origin].lake
    /\ world.tiles[Origin].terrain = "water"
    /\ Occurrences(world.lakes, Origin) = 1

\* C16: the event scheduled for turn T fires on exactly the call that
\* brings turn_counter to T (so that under repeated calls an event fires
\* again and again).
C16_FiresAtScheduledTurn ==
    [][Called =>
          ((turn_counter' = next_event_turn) <=> (ret' \in EventNames))]_vars

\* C17: between calls next_event_turn > turn_counter, so that a call meets
\* the firing condition turn_counter >= next_event_turn only with equality.
C17_NextTurnAhead ==
    /\ (pc = "ready") => (next_event_turn > turn_counter)
    /\ (pc = "ready" /\ ret # "None") => (turn_counter <= next_event_turn)

\* C18: no call increases resources, population or buildings, and no call
\* changes defenses or location.
C18_OnlyDeplete ==
    [][Called =>
          /\ state'.resources <= state.resources
          /\ state'.population <= state.population
          /\ state'.buildings <= state.buildings
          /\ state'.defenses = state.defenses
          /\ state'.location = state.location]_vars

\* C19: a call with turn_counter + 1 < next_event_turn returns nothing and
\* changes turn_counter only: the settlement, the world, next_event_turn
\* and the position of the random stream stay as they were.
C19_NonFiringFrame ==
    [][(Called /\ turn_counter + 1 < next_event_turn) =>
          /\ turn_counter' = turn_counter + 1
          /\ ret' = "None"
          /\ state' = state
          /\ world' = world
          /\ next_event_turn' = next_event_turn
          /\ rng_draws' = rng_draws
          /\ UNCHANGED <<pc, settings, event_weights, oracle>>]_vars

\* After the construction and one firing (three draws), a call one turn
\* before the next scheduled turn has returned nothing.
C19_Witness ==
    /\ pc = "ready"
    /\ ret = "None"
    /\ rng_draws = 3
    /\ turn_counter + 1 = next_event_turn

\* C20: no tile has its lake flag set together with a terrain other than
\* "water".
C20_LakeIsWater ==
    \A c \in Coords :
        world.tiles[c].lake => world.tiles[c].terrain = "water"

====
